---------------------------- MODULE Spec2Model ----------------------------
(***************************************************************************)
(* A model of git_utils.py: the GitHub API client that matches commits to  *)
(* build artifacts / workflow runs and downloads the matching artifact.    *)
(*                                                                         *)
(* Strings are sequences of one-character strings.  HTTP responses, the    *)
(* process environment and the clock are the inputs; they are drawn from   *)
(* small sets.  Process exit (exit(1)) and uncaught exceptions are         *)
(* recorded in the variable outcome.                                       *)
(***************************************************************************)
EXTENDS Integers, Sequences, FiniteSets, TLC

(***************************************************************************)
(* Bounds of the model.                                                    *)
(***************************************************************************)
MaxPieces == 5        \* a repository URL path is built from at most this many pieces
MaxCommits == 3       \* length of a commit history given to the matchers
MaxEntries == 2       \* number of artifacts / runs given to the matchers
MaxEnvLen == 1        \* length of an environment variable's value

(***************************************************************************)
(* Generic helpers on sequences.                                           *)
(***************************************************************************)
RECURSIVE SeqsUpTo(_, _)
SeqsUpTo(S, n) ==
    IF n = 0 THEN {<<>>}
    ELSE LET shorter == SeqsUpTo(S, n - 1)
         IN  shorter \cup {Append(s, x) : s \in {t \in shorter : Len(t) = n - 1}, x \in S}

RECURSIVE Flatten(_)
Flatten(ss) == IF ss = <<>> THEN <<>> ELSE Head(ss) \o Flatten(Tail(ss))

Drop(s, n) == SubSeq(s, n + 1, Len(s))

StartsWith(s, p) == Len(s) >= Len(p) /\ SubSeq(s, 1, Len(p)) = p

Indices(s, chars) == {i \in 1..Len(s) : s[i] \in chars}

Min(S) == CHOOSE x \in S : \A y \in S : x <= y

(***************************************************************************)
(* urlparse(url).path, for URLs of the form scheme://netloc/path?query.    *)
(***************************************************************************)
SchemeChars == {"h", "a", "g", "i", "t"}

AfterScheme(u) ==
    LET colons == Indices(u, {":"})
    IN  IF colons # {} /\ Min(colons) > 1
           /\ \A i \in 1..(Min(colons) - 1) : u[i] \in SchemeChars
        THEN Drop(u, Min(colons))
        ELSE u

AfterNetloc(s) ==
    IF StartsWith(s, <<"/", "/">>)
    THEN LET rest == Drop(s, 2)
             delims == Indices(rest, {"/", "?", "#"})
         IN  IF delims = {} THEN <<>> ELSE Drop(rest, Min(delims) - 1)
    ELSE s

urlparse_path(url) ==
    LET s == AfterNetloc(AfterScheme(url))
        cuts == Indices(s, {"?", "#"})
    IN  IF cuts = {} THEN s ELSE SubSeq(s, 1, Min(cuts) - 1)

(***************************************************************************)
(* str.split(sep) and str.replace(old, '').                                *)
(***************************************************************************)
RECURSIVE str_split(_, _)
str_split(s, sep) ==
    LET seps == Indices(s, {sep})
    IN  IF seps = {} THEN <<s>>
        ELSE <<SubSeq(s, 1, Min(seps) - 1)>> \o str_split(Drop(s, Min(seps)), sep)

RECURSIVE str_remove(_, _)
str_remove(s, old) ==
    IF s = <<>> THEN <<>>
    ELSE IF StartsWith(s, old) THEN str_remove(Drop(s, Len(old)), old)
    ELSE <<Head(s)>> \o str_remove(Tail(s), old)

DotGit == <<".", "g", "i", "t">>

(***************************************************************************)
(* split_git_url: ok = FALSE is the exit(1) of the ValueError handler.     *)
(***************************************************************************)
split_git_url(url) ==
    LET parts == str_split(urlparse_path(url), "/")
    IN  IF Len(parts) # 3
        THEN [ok |-> FALSE, user_name |-> <<>>, repo |-> <<>>]
        ELSE [ok |-> TRUE, user_name |-> parts[2], repo |-> str_remove(parts[3], DotGit)]


(***************************************************************************)
(* The process environment: a function from some of the variable names to  *)
(* strings.  os.getenv(name, default).                                     *)
(***************************************************************************)
EnvNames == {"GH_TOKEN", "GITHUB_TOKEN", "GH_USERNAME", "GITHUB_ACTOR", "GH_PASSWORD"}

EnvChars == {"a", "é"}

EnvValues == SeqsUpTo(EnvChars, MaxEnvLen)

Envs == UNION {[D -> EnvValues] : D \in SUBSET EnvNames}

getenv(env, name, default) == IF name \in DOMAIN env THEN env[name] ELSE default

(***************************************************************************)
(* str.encode('ascii') and base64.b64encode.                               *)
(***************************************************************************)
Ord(c) == CASE c = "a" -> 97
            [] c = ":" -> 58
            [] c = "é" -> 233

is_ascii(s) == \A i \in 1..Len(s) : Ord(s[i]) < 128

encode_ascii(s) == [i \in 1..Len(s) |-> Ord(s[i])]

B64Alphabet ==
    <<"A", "B", "C", "D", "E", "F", "G", "H", "I", "J", "K", "L", "M",
      "N", "O", "P", "Q", "R", "S", "T", "U", "V", "W", "X", "Y", "Z",
      "a", "b", "c", "d", "e", "f", "g", "h", "i", "j", "k", "l", "m",
      "n", "o", "p", "q", "r", "s", "t", "u", "v", "w", "x", "y", "z",
      "0", "1", "2", "3", "4", "5", "6", "7", "8", "9", "+", "/">>

Sextet(n, k) == B64Alphabet[((n \div (64 ^ (3 - k))) % 64) + 1]

RECURSIVE b64encode(_)
b64encode(b) ==
    IF Len(b) = 0 THEN <<>>
    ELSE IF Len(b) = 1
    THEN LET n == b[1] * 65536
         IN  <<Sextet(n, 0), Sextet(n, 1), "=", "=">>
    ELSE IF Len(b) = 2
    THEN LET n == b[1] * 65536 + b[2] * 256
         IN  <<Sextet(n, 0), Sextet(n, 1), Sextet(n, 2), "=">>
    ELSE LET n == b[1] * 65536 + b[2] * 256 + b[3]
         IN  <<Sextet(n, 0), Sextet(n, 1), Sextet(n, 2), Sextet(n, 3)>> \o b64encode(Drop(b, 3))

(***************************************************************************)
(* headers_try_to_add_authorization_from_environment.  result is "True",   *)
(* "False", or the exception that encode('ascii') raises.                  *)
(***************************************************************************)
Bearer == <<"B", "e", "a", "r", "e", "r", " ">>

Basic == <<"B", "a", "s", "i", "c", " ">>

AcceptHeaders == [h \in {"Accept"} |-> <<"application/vnd.github+json">>]

SetHeader(headers, name, value) ==
    [h \in DOMAIN headers \cup {name} |-> IF h = name THEN value ELSE headers[h]]

\* the resolver trying the username and password before the tokens
headers_try_basic_first(headers, env) ==
    LET gh_token0 == getenv(env, "GH_TOKEN", <<>>)
        gh_token == IF gh_token0 = <<>> THEN getenv(env, "GITHUB_TOKEN", <<>>) ELSE gh_token0
        gh_username0 == getenv(env, "GH_USERNAME", <<>>)
        gh_username == IF gh_username0 = <<>> THEN getenv(env, "GITHUB_ACTOR", <<>>)
                       ELSE gh_username0
        gh_password == getenv(env, "GH_PASSWORD", <<>>)
        auth_string == gh_username \o <<":">> \o gh_password
    IN  IF Len(gh_username) > 0 /\ Len(gh_password) > 0
        THEN IF is_ascii(auth_string)
             THEN [headers |-> SetHeader(headers, "authorization",
                                         Basic \o b64encode(encode_ascii(auth_string))),
                   result |-> "True"]
             ELSE [headers |-> headers, result |-> "UnicodeEncodeError"]
        ELSE IF Len(gh_token) > 0
        THEN [headers |-> SetHeader(headers, "authorization", Bearer \o gh_token),
              result |-> "True"]
        ELSE [headers |-> headers, result |-> "False"]

\* the resolver building the Basic form when either the username or the password is set
headers_try_basic_either(headers, env) ==
    LET gh_token0 == getenv(env, "GH_TOKEN", <<>>)
        gh_token == IF gh_token0 = <<>> THEN getenv(env, "GITHUB_TOKEN", <<>>) ELSE gh_token0
        gh_username0 == getenv(env, "GH_USERNAME", <<>>)
        gh_username == IF gh_username0 = <<>> THEN getenv(env, "GITHUB_ACTOR", <<>>)
                       ELSE gh_username0
        gh_password == getenv(env, "GH_PASSWORD", <<>>)
        auth_string == gh_username \o <<":">> \o gh_password
    IN  IF Len(gh_token) > 0
        THEN [headers |-> SetHeader(headers, "authorization", Bearer \o gh_token),
              result |-> "True"]
        ELSE IF Len(gh_username) > 0 \/ Len(gh_password) > 0
        THEN IF is_ascii(auth_string)
             THEN [headers |-> SetHeader(headers, "authorization",
                                         Basic \o b64encode(encode_ascii(auth_string))),
                   result |-> "True"]
             ELSE [headers |-> headers, result |-> "UnicodeEncodeError"]
        ELSE [headers |-> headers, result |-> "False"]

headers_try_to_add_authorization_from_environment(headers, env) ==
    LET gh_token0 == getenv(env, "GH_TOKEN", <<>>)
        gh_token == IF gh_token0 = <<>> THEN getenv(env, "GITHUB_TOKEN", <<>>) ELSE gh_token0
        gh_username0 == getenv(env, "GH_USERNAME", <<>>)
        gh_username == IF gh_username0 = <<>> THEN getenv(env, "GITHUB_ACTOR", <<>>)
                       ELSE gh_username0
        gh_password == getenv(env, "GH_PASSWORD", <<>>)
        auth_string == gh_username \o <<":">> \o gh_password
    IN  IF Len(gh_token) > 0
        THEN [headers |-> SetHeader(headers, "authorization", Bearer \o gh_token),
              result |-> "True"]
        ELSE IF Len(gh_username) > 0 /\ Len(gh_password) > 0
        THEN IF is_ascii(auth_string)
             THEN [headers |-> SetHeader(headers, "authorization",
                                         Basic \o b64encode(encode_ascii(auth_string))),
                   result |-> "True"]
             ELSE [headers |-> headers, result |-> "UnicodeEncodeError"]
        ELSE [headers |-> headers, result |-> "False"]

(***************************************************************************)
(* check_status and check_rate_limit.  A response's headers are a function *)
(* from some of the header names to values; the X-RateLimit values are the *)
(* integers that int() reads from them.  The clock is in milliseconds.     *)
(***************************************************************************)
sys_maxsize == 1000000   \* stands for 2^63 - 1: later than every clock value of the model

header_get(headers, name, default) == IF name \in DOMAIN headers THEN headers[name] ELSE default

\* check_status testing for the wrong status code
check_status_forbidden(status_code) == IF status_code = 403 THEN "exit" ELSE "return"

check_status(status_code) == IF status_code = 401 THEN "exit" ELSE "return"

\* int(x): truncation towards zero of x_ms / 1000
int_of_ms(x_ms) == IF x_ms >= 0 THEN x_ms \div 1000 ELSE -((-x_ms) \div 1000)

\* (when / remaining) + 1, in milliseconds
delay_ms(when, remaining) ==
    (when \div remaining) * 1000 + ((when % remaining) * 1000) \div remaining + 1000

check_rate_limit(headers, now_ms) ==
    LET remaining == header_get(headers, "X-RateLimit-Remaining", -1)
        limit == header_get(headers, "X-RateLimit-Limit", -1)
        reset == header_get(headers, "X-RateLimit-Reset", sys_maxsize)
        when0 == int_of_ms(reset * 1000 - now_ms)
        when == IF when0 < 0 THEN 0 ELSE when0
        throttle == remaining > 0 /\ remaining < 100 /\ when > 0
        sleeps == throttle /\ delay_ms(when, remaining) > 0
                           /\ delay_ms(when, remaining) < 10000
    IN  IF "content-length" \in DOMAIN headers
        THEN \* content_length is a str: content_length >= 0 raises
             [outcome |-> "TypeError", slept_ms |-> 0, info |-> FALSE]
        ELSE [outcome |-> IF remaining = 0 THEN "exit" ELSE "return",
              slept_ms |-> IF sleeps THEN delay_ms(when, remaining) ELSE 0,
              info |-> 2 * remaining < limit]

(***************************************************************************)
(* The matchers.  A dict comprehension keeps, for a key that occurs more   *)
(* than once, the value of the last entry.  None is the value a function   *)
(* returns when it falls off its end.                                      *)
(***************************************************************************)
None == "None"

\* a mapping that keeps the value of the first entry with a key
RECURSIVE dict_of_first_wins(_)
dict_of_first_wins(items) ==
    IF items = <<>> THEN <<>>
    ELSE LET n == Len(items)
             d == dict_of_first_wins(SubSeq(items, 1, n - 1))
             k == items[n][1]
         IN  [x \in DOMAIN d \cup {k} |-> IF x \in DOMAIN d THEN d[x] ELSE items[n][2]]

RECURSIVE dict_of(_)
dict_of(items) ==
    IF items = <<>> THEN <<>>
    ELSE LET n == Len(items)
             d == dict_of(SubSeq(items, 1, n - 1))
             k == items[n][1]
         IN  [x \in DOMAIN d \cup {k} |-> IF x = k THEN items[n][2] ELSE d[x]]

\* the scan keeping the last commit found in the mapping instead of returning at the first
first_match_keeps_last(commits, d) ==
    LET hits == {i \in 1..Len(commits) : commits[i].sha \in DOMAIN d}
        last == CHOOSE i \in hits : \A k \in hits : k <= i
    IN  IF hits = {} THEN None ELSE d[commits[last].sha]

first_match(commits, d) ==
    LET hits == {i \in 1..Len(commits) : commits[i].sha \in DOMAIN d}
    IN  IF hits = {} THEN None ELSE d[commits[Min(hits)].sha]

get_most_recent_action_url(commits, artifacts) ==
    LET release_sha_to_download_url ==
            dict_of([i \in 1..Len(artifacts) |->
                        <<artifacts[i].workflow_run.head_sha, artifacts[i].archive_download_url>>])
    IN  first_match(commits, release_sha_to_download_url)

\* the page matcher without the filter on the run's name
get_most_recent_action_page_any_name(commits, runs) ==
    LET release_sha_to_page_url ==
            dict_of([i \in 1..Len(runs) |-> <<runs[i].head_sha, runs[i].html_url>>])
    IN  first_match(commits, release_sha_to_page_url)

get_most_recent_action_page(commits, runs) ==
    LET gds == SelectSeq(runs, LAMBDA run : run.name = "gds")
        release_sha_to_page_url ==
            dict_of([i \in 1..Len(gds) |-> <<gds[i].head_sha, gds[i].html_url>>])
    IN  first_match(commits, release_sha_to_page_url)


(***************************************************************************)
(* State.  One top-level operation (op) runs from its first line to the    *)
(* end; pc names the function and the source line about to be executed.    *)
(***************************************************************************)
VARIABLES
    op,            \* the top-level function called
    pc,            \* the position in it
    url,           \* its git_url / url argument
    env,           \* os.environ
    now_ms,        \* time.time(), in milliseconds
    ref,           \* what split_git_url returned
    headers,       \* the request headers
    r,             \* the last response
    commits,       \* the commit history of install_artifacts / get_latest_action_url
    artifacts,     \* the artifacts named GDS
    runs,          \* the workflow runs
    download_url,  \* the matcher's result in install_artifacts
    attempts,      \* the download loop's counter
    reqs,          \* the requests issued so far, in order
    observed,      \* the number of responses handed to check_rate_limit
    slept_ms,      \* how long the last check_rate_limit slept
    extracted,     \* what extractall has written to the directory
    outcome,       \* "running", "returned", an exit or an uncaught exception
    result         \* the value returned

vars == <<op, pc, url, env, now_ms, ref, headers, r, commits, artifacts, runs,
          download_url, attempts, reqs, observed, slept_ms, extracted, outcome, result>>

(***************************************************************************)
(* Inputs.                                                                 *)
(***************************************************************************)
UrlPrefix == <<"h", ":", "/", "/", "g">>

Pieces == {<<"/">>, <<"a">>, DotGit, <<"?">>}

Urls == {UrlPrefix \o Flatten(ps) : ps \in SeqsUpTo(Pieces, MaxPieces)}

MainPaths ==
    { <<>>,
      <<"/", "a">>,
      <<"/", "a", "/", "a">>,
      <<"/", "a", "/", "a", ".", "g", "i", "t">>,
      <<"/", "/", "a">>,
      <<"/", "a", "/">>,
      <<"/", "a", "/", "a", "/", "a">> }

MainUrls == {UrlPrefix \o p : p \in MainPaths}

MainEnvs ==
    { <<>>,
      [n \in {"GH_TOKEN", "GH_USERNAME", "GH_PASSWORD"} |-> <<"a">>],
      [n \in {"GITHUB_ACTOR", "GH_PASSWORD"} |-> <<"a">>],
      [n \in {"GH_USERNAME", "GH_PASSWORD"} |-> <<"é">>] }

Shas == {"c1", "c2", "c3"}

DownloadUrls == {"urlA", "urlC"}

Commit(sha) == [sha |-> sha]

Artifact(name, sha, u) ==
    [name |-> name, workflow_run |-> [head_sha |-> sha], archive_download_url |-> u]

Run(name, sha, u) == [name |-> name, head_sha |-> sha, html_url |-> u]

MainCommitLists ==
    { <<>>, <<Commit("c2")>>, <<Commit("c3"), Commit("c2"), Commit("c1")>> }

MainArtifactLists ==
    { <<>>,
      <<Artifact("other", "c3", "urlC")>>,
      <<Artifact("GDS", "c1", "urlA")>>,
      <<Artifact("GDS", "c1", "urlA"), Artifact("other", "c2", "urlA"),
        Artifact("GDS", "c3", "urlC")>> }

MainRunLists ==
    { <<>>,
      <<Run("test", "c3", "urlC")>>,
      <<Run("test", "c3", "urlC"), Run("gds", "c1", "urlA")>>,
      <<Run("gds", "c1", "urlA"), Run("test", "c2", "urlC"), Run("gds", "c3", "urlC")>> }

Dict(key, value) == [k \in {key} |-> value]

EmptyDict == <<>>

\* the response headers the governor reads
RateHeaders(remaining, limit, reset) ==
    [h \in {"X-RateLimit-Remaining", "X-RateLimit-Limit", "X-RateLimit-Reset"} |->
        CASE h = "X-RateLimit-Remaining" -> remaining
          [] h = "X-RateLimit-Limit" -> limit
          [] h = "X-RateLimit-Reset" -> reset]

WithContentLength(h) ==
    [k \in DOMAIN h \cup {"content-length"} |-> IF k = "content-length" THEN 120 ELSE h[k]]

StartMs == 10000

MainRateHeaders ==
    LET base == { <<>>, RateHeaders(4000, 5000, 30), RateHeaders(50, 1000, 30),
                  RateHeaders(0, 60, 30) }
    IN  base \cup {WithContentLength(h) : h \in base}

Bodies(endpoint) ==
    CASE endpoint = "commits" -> MainCommitLists
      [] endpoint = "artifacts" ->
            {EmptyDict} \cup {Dict("artifacts", l) : l \in MainArtifactLists}
      [] endpoint = "runs" ->
            {EmptyDict} \cup {Dict("workflow_runs", l) : l \in MainRunLists}
      [] endpoint = "contents" ->
            { EmptyDict, Dict("content", <<"a">>),
              [k \in {"content", "encoding"} |->
                  IF k = "content" THEN b64encode(encode_ascii(<<"a">>))
                  ELSE <<"base64">>] }
      [] endpoint = "download" -> {"zip", "badzip", "badcrc"}

Unauthorized == "Bad credentials"

Responses(endpoint) ==
    {[status_code |-> 200, headers |-> h, body |-> b] :
        h \in MainRateHeaders, b \in Bodies(endpoint)}
    \cup {[status_code |-> 401, headers |-> h, body |-> Unauthorized] : h \in MainRateHeaders}

NoResponse == [status_code |-> 0, headers |-> <<>>, body |-> ""]

NoRef == [ok |-> FALSE, user_name |-> <<>>, repo |-> <<>>]


(***************************************************************************)
(* The top-level operations.                                               *)
(***************************************************************************)
max_attempts == 3

Ops == {"install_artifacts", "get_latest_action_url", "fetch_file_from_git"}

StartPc(o) ==
    CASE o = "install_artifacts" -> "install_164"
      [] o = "get_latest_action_url" -> "latest_224"
      [] o = "fetch_file_from_git" -> "fetch_105"

\* the call sites with the commits and contents responses handed to check_rate_limit
\* without check_status first
RequestSitesGovernorFirst ==
    [p \in {"install_174", "install_182", "latest_234", "latest_242", "fetch_116"} |->
        CASE p = "install_174" -> <<"commits", "install_176">>
          [] p = "install_182" -> <<"artifacts", "install_183">>
          [] p = "latest_234" -> <<"commits", "latest_236">>
          [] p = "latest_242" -> <<"runs", "latest_243">>
          [] p = "fetch_116" -> <<"contents", "fetch_118">>]

\* the requests.get call sites with an api_url: the endpoint asked and the next line
RequestSites ==
    [p \in {"install_174", "install_182", "latest_234", "latest_242", "fetch_116"} |->
        CASE p = "install_174" -> <<"commits", "install_175">>
          [] p = "install_182" -> <<"artifacts", "install_183">>
          [] p = "latest_234" -> <<"commits", "latest_235">>
          [] p = "latest_242" -> <<"runs", "latest_243">>
          [] p = "fetch_116" -> <<"contents", "fetch_117">>]

\* the check_status call sites and the line after each
StatusSites ==
    [p \in {"install_175", "install_183", "install_209", "latest_235", "latest_243",
            "fetch_117"} |->
        CASE p = "install_175" -> "install_176"
          [] p = "install_183" -> "install_184"
          [] p = "install_209" -> "install_210"
          [] p = "latest_235" -> "latest_236"
          [] p = "latest_243" -> "latest_244"
          [] p = "fetch_117" -> "fetch_118"]

\* the check_rate_limit call sites and the line after each
RateLimitSites ==
    [p \in {"install_176", "latest_236", "fetch_118"} |->
        CASE p = "install_176" -> "install_178"
          [] p = "latest_236" -> "latest_238"
          [] p = "fetch_118" -> "fetch_120"]

\* the commits = r.json() lines and the request after each
CommitsSites ==
    [p \in {"install_178", "latest_238"} |->
        IF p = "install_178" THEN "install_182" ELSE "latest_242"]

Init ==
    /\ op \in Ops
    /\ pc = StartPc(op)
    /\ url \in MainUrls
    /\ env \in MainEnvs
    /\ now_ms = StartMs
    /\ ref = NoRef
    /\ headers = <<>>
    /\ r = NoResponse
    /\ commits = <<>>
    /\ artifacts = <<>>
    /\ runs = <<>>
    /\ download_url = None
    /\ attempts = 0
    /\ reqs = <<>>
    /\ observed = 0
    /\ slept_ms = 0
    /\ extracted = "nothing"
    /\ outcome = "running"
    /\ result = None

Finish(o, v) == outcome' = o /\ result' = v /\ pc' = "done"

\* split_git_url(url), then the headers: the first lines of each operation
begin ==
    /\ pc = StartPc(op)
    /\ outcome = "running"
    /\ LET parsed == split_git_url(url)
           auth == headers_try_to_add_authorization_from_environment(AcceptHeaders, env)
       IN  IF ~parsed.ok
           THEN Finish("exit_split", None) /\ UNCHANGED <<ref, headers>>
           ELSE /\ ref' = parsed
                /\ IF auth.result = "UnicodeEncodeError"
                   THEN Finish("UnicodeEncodeError", None) /\ UNCHANGED headers
                   ELSE /\ headers' = auth.headers
                        /\ pc' = CASE op = "install_artifacts" -> "install_174"
                                   [] op = "get_latest_action_url" -> "latest_234"
                                   [] op = "fetch_file_from_git" -> "fetch_116"
                        /\ UNCHANGED <<outcome, result>>
    /\ UNCHANGED <<op, url, env, now_ms, r, commits, artifacts, runs, download_url,
                   attempts, reqs, observed, slept_ms, extracted>>

\* r = requests.get(api_url, headers=headers)
request ==
    /\ pc \in DOMAIN RequestSites
    /\ \E resp \in Responses(RequestSites[pc][1]) : r' = resp
    /\ reqs' = Append(reqs, [endpoint |-> RequestSites[pc][1],
                             url |-> <<ref.user_name, ref.repo>>,
                             headers |-> headers])
    /\ pc' = RequestSites[pc][2]
    /\ UNCHANGED <<op, url, env, now_ms, ref, headers, commits, artifacts, runs,
                   download_url, attempts, observed, slept_ms, extracted, outcome, result>>

\* check_status(r)
status_check ==
    /\ pc \in DOMAIN StatusSites
    /\ IF check_status(r.status_code) = "exit"
       THEN Finish("exit_unauthorised", None)
       ELSE pc' = StatusSites[pc] /\ UNCHANGED <<outcome, result>>
    /\ UNCHANGED <<op, url, env, now_ms, ref, headers, r, commits, artifacts, runs,
                   download_url, attempts, reqs, observed, slept_ms, extracted>>

\* check_rate_limit(r)
rate_limit_check ==
    /\ pc \in DOMAIN RateLimitSites
    /\ LET res == check_rate_limit(r.headers, now_ms)
       IN  /\ slept_ms' = res.slept_ms
           /\ now_ms' = now_ms + res.slept_ms
           /\ CASE res.outcome = "TypeError" -> Finish("TypeError", None)
                [] res.outcome = "exit" -> Finish("exit_rate_limit", None)
                [] res.outcome = "return" ->
                      pc' = RateLimitSites[pc] /\ UNCHANGED <<outcome, result>>
    /\ observed' = observed + 1
    /\ UNCHANGED <<op, url, env, ref, headers, r, commits, artifacts, runs,
                   download_url, attempts, reqs, extracted>>

\* commits = r.json()
commits_json ==
    /\ pc \in DOMAIN CommitsSites
    /\ commits' = r.body
    /\ pc' = CommitsSites[pc]
    /\ UNCHANGED <<op, url, env, now_ms, ref, headers, r, artifacts, runs, download_url,
                   attempts, reqs, observed, slept_ms, extracted, outcome, result>>

\* install_artifacts exiting when the matcher finds no commit with an artifact
artifacts_json_fails_fast ==
    /\ pc = "install_184"
    /\ LET data == r.body
           gds == SelectSeq(data["artifacts"], LAMBDA a : a.name = "GDS")
       IN  IF "artifacts" \notin DOMAIN data
           THEN Finish("exit_no_artifact", None)
                /\ UNCHANGED <<artifacts, download_url, attempts>>
           ELSE /\ artifacts' = gds
                /\ IF Len(gds) = 0
                   THEN Finish("exit_no_artifacts", None)
                        /\ UNCHANGED <<download_url, attempts>>
                   ELSE /\ download_url' = get_most_recent_action_url(commits, gds)
                        /\ attempts' = 1
                        /\ IF get_most_recent_action_url(commits, gds) = None
                           THEN Finish("exit_no_match", None)
                           ELSE pc' = "install_205" /\ UNCHANGED <<outcome, result>>
    /\ UNCHANGED <<op, url, env, now_ms, ref, headers, r, commits, runs, reqs, observed,
                   slept_ms, extracted>>

\* install_artifacts without the test for an empty filtered list
artifacts_json_no_empty_test ==
    /\ pc = "install_184"
    /\ LET data == r.body
           gds == SelectSeq(data["artifacts"], LAMBDA a : a.name = "GDS")
       IN  IF "artifacts" \notin DOMAIN data
           THEN Finish("exit_no_artifact", None)
                /\ UNCHANGED <<artifacts, download_url, attempts>>
           ELSE /\ artifacts' = gds
                /\ download_url' = get_most_recent_action_url(commits, gds)
                /\ attempts' = 1
                /\ pc' = "install_205"
                /\ UNCHANGED <<outcome, result>>
    /\ UNCHANGED <<op, url, env, now_ms, ref, headers, r, commits, runs, reqs, observed,
                   slept_ms, extracted>>

\* install_artifacts, from data = r.json() to attempts = 1
artifacts_json ==
    /\ pc = "install_184"
    /\ LET data == r.body
           gds == SelectSeq(data["artifacts"], LAMBDA a : a.name = "GDS")
       IN  IF "artifacts" \notin DOMAIN data
           THEN Finish("exit_no_artifact", None)
                /\ UNCHANGED <<artifacts, download_url, attempts>>
           ELSE /\ artifacts' = gds
                /\ IF Len(gds) = 0
                   THEN Finish("exit_no_artifacts", None)
                        /\ UNCHANGED <<download_url, attempts>>
                   ELSE /\ download_url' = get_most_recent_action_url(commits, gds)
                        /\ attempts' = 1
                        /\ pc' = "install_205"
                        /\ UNCHANGED <<outcome, result>>
    /\ UNCHANGED <<op, url, env, now_ms, ref, headers, r, commits, runs, reqs, observed,
                   slept_ms, extracted>>

\* while attempts < max_attempts
loop_test ==
    /\ pc = "install_205"
    /\ pc' = IF attempts < max_attempts THEN "install_208" ELSE "install_217"
    /\ UNCHANGED <<op, url, env, now_ms, ref, headers, r, commits, artifacts, runs,
                   download_url, attempts, reqs, observed, slept_ms, extracted, outcome,
                   result>>

\* r = requests.get(download_url, headers=headers); a URL of None raises MissingSchema
download ==
    /\ pc = "install_208"
    /\ IF download_url = None
       THEN Finish("MissingSchema", None) /\ UNCHANGED <<r, reqs>>
       ELSE /\ \E resp \in Responses("download") : r' = resp
            /\ reqs' = Append(reqs, [endpoint |-> "download", url |-> download_url,
                                     headers |-> headers])
            /\ pc' = "install_209"
            /\ UNCHANGED <<outcome, result>>
    /\ UNCHANGED <<op, url, env, now_ms, ref, headers, commits, artifacts, runs,
                   download_url, attempts, observed, slept_ms, extracted>>

\* the BadZipFile handler restarting from the commits request
unpack_refetches ==
    /\ pc = "install_210"
    /\ CASE r.body = "zip" ->
              extracted' = "full" /\ pc' = "install_217" /\ UNCHANGED attempts
         [] r.body = "badzip" ->
              attempts' = attempts + 1 /\ pc' = "install_174" /\ UNCHANGED extracted
         [] r.body = "badcrc" ->
              extracted' = "partial" /\ attempts' = attempts + 1 /\ pc' = "install_174"
    /\ UNCHANGED <<op, url, env, now_ms, ref, headers, r, commits, artifacts, runs,
                   download_url, reqs, observed, slept_ms, outcome, result>>

\* a successful unpack counted as an attempt before the break
unpack_counts_success ==
    /\ pc = "install_210"
    /\ CASE r.body = "zip" ->
              extracted' = "full" /\ attempts' = attempts + 1 /\ pc' = "install_217"
         [] r.body = "badzip" ->
              attempts' = attempts + 1 /\ pc' = "install_205" /\ UNCHANGED extracted
         [] r.body = "badcrc" ->
              extracted' = "partial" /\ attempts' = attempts + 1 /\ pc' = "install_205"
    /\ UNCHANGED <<op, url, env, now_ms, ref, headers, r, commits, artifacts, runs,
                   download_url, reqs, observed, slept_ms, outcome, result>>

\* ZipFile(...), extractall(directory), break; or the BadZipFile handler
unpack ==
    /\ pc = "install_210"
    /\ CASE r.body = "zip" ->
              extracted' = "full" /\ pc' = "install_217" /\ UNCHANGED attempts
         [] r.body = "badzip" ->
              attempts' = attempts + 1 /\ pc' = "install_205" /\ UNCHANGED extracted
         [] r.body = "badcrc" ->
              extracted' = "partial" /\ attempts' = attempts + 1 /\ pc' = "install_205"
    /\ UNCHANGED <<op, url, env, now_ms, ref, headers, r, commits, artifacts, runs,
                   download_url, reqs, observed, slept_ms, outcome, result>>

\* the test after the loop comparing against the wrong count
loop_exit_never_gives_up ==
    /\ pc = "install_217"
    /\ IF attempts > max_attempts
       THEN Finish("exit_gave_up", None)
       ELSE Finish("returned", None)
    /\ UNCHANGED <<op, url, env, now_ms, ref, headers, r, commits, artifacts, runs,
                   download_url, attempts, reqs, observed, slept_ms, extracted>>

\* if attempts == max_attempts: exit(1); else the function returns
loop_exit ==
    /\ pc = "install_217"
    /\ IF attempts = max_attempts
       THEN Finish("exit_gave_up", None)
       ELSE Finish("returned", None)
    /\ UNCHANGED <<op, url, env, now_ms, ref, headers, r, commits, artifacts, runs,
                   download_url, attempts, reqs, observed, slept_ms, extracted>>

\* get_latest_action_url, from runs = r.json() to return page_url
runs_json ==
    /\ pc = "latest_244"
    /\ IF "workflow_runs" \notin DOMAIN r.body
       THEN Finish("KeyError", None) /\ UNCHANGED runs
       ELSE /\ runs' = r.body["workflow_runs"]
            /\ Finish("returned", get_most_recent_action_page(commits, r.body["workflow_runs"]))
    /\ UNCHANGED <<op, url, env, now_ms, ref, headers, r, commits, artifacts,
                   download_url, attempts, reqs, observed, slept_ms, extracted>>

\* base64.b64decode of an encoded string
b64decode(s) ==
    CHOOSE b \in SeqsUpTo({"a", ":"}, 3) : b64encode(encode_ascii(b)) = s

\* fetch_file_from_git, from data = r.json() to return file_content
contents_json ==
    /\ pc = "fetch_120"
    /\ LET data == r.body
       IN  IF "content" \notin DOMAIN data
           THEN Finish("returned", None)
           ELSE IF "encoding" \in DOMAIN data /\ data["encoding"] = <<"base64">>
           THEN Finish("returned", b64decode(data["content"]))
           ELSE Finish("returned", data["content"])
    /\ UNCHANGED <<op, url, env, now_ms, ref, headers, r, commits, artifacts, runs,
                   download_url, attempts, reqs, observed, slept_ms, extracted>>

Next ==
    \/ begin
    \/ request
    \/ status_check
    \/ rate_limit_check
    \/ commits_json
    \/ artifacts_json
    \/ loop_test
    \/ download
    \/ unpack
    \/ loop_exit
    \/ runs_json
    \/ contents_json

Spec == Init /\ [][Next]_vars


(***************************************************************************)
(* Specifications of the functions on their own: Init draws the arguments, *)
(* the action applies the function.                                        *)
(***************************************************************************)

\* split_git_url(url)
InitParse ==
    /\ op = "split_git_url" /\ pc = "call"
    /\ url \in Urls
    /\ env = <<>> /\ now_ms = StartMs /\ ref = NoRef /\ headers = <<>> /\ r = NoResponse
    /\ commits = <<>> /\ artifacts = <<>> /\ runs = <<>> /\ download_url = None
    /\ attempts = 0 /\ reqs = <<>> /\ observed = 0 /\ slept_ms = 0
    /\ extracted = "nothing" /\ outcome = "running" /\ result = None

call_split_git_url ==
    /\ op = "split_git_url" /\ pc = "call"
    /\ ref' = split_git_url(url)
    /\ outcome' = IF split_git_url(url).ok THEN "returned" ELSE "exit_split"
    /\ pc' = "done"
    /\ UNCHANGED <<op, url, env, now_ms, headers, r, commits, artifacts, runs, download_url,
                   attempts, reqs, observed, slept_ms, extracted, result>>

SpecParse == InitParse /\ [][call_split_git_url]_vars

\* headers_try_to_add_authorization_from_environment(headers)
InitCred ==
    /\ op = "headers_try_to_add_authorization_from_environment" /\ pc = "call"
    /\ env \in Envs
    /\ headers = AcceptHeaders
    /\ url = <<>> /\ now_ms = StartMs /\ ref = NoRef /\ r = NoResponse
    /\ commits = <<>> /\ artifacts = <<>> /\ runs = <<>> /\ download_url = None
    /\ attempts = 0 /\ reqs = <<>> /\ observed = 0 /\ slept_ms = 0
    /\ extracted = "nothing" /\ outcome = "running" /\ result = None

call_headers_try ==
    /\ op = "headers_try_to_add_authorization_from_environment" /\ pc = "call"
    /\ LET auth == headers_try_to_add_authorization_from_environment(headers, env)
       IN  /\ headers' = auth.headers
           /\ IF auth.result = "UnicodeEncodeError"
              THEN outcome' = "UnicodeEncodeError" /\ UNCHANGED result
              ELSE outcome' = "returned" /\ result' = auth.result
    /\ pc' = "done"
    /\ UNCHANGED <<op, url, env, now_ms, ref, r, commits, artifacts, runs, download_url,
                   attempts, reqs, observed, slept_ms, extracted>>

SpecCred == InitCred /\ [][call_headers_try]_vars

\* check_rate_limit(r)
GovRemaining == {0, 1, 50, 99, 100}

GovLimits == {60, 1000}

GovResets == {5, 10, 11, 18, 19, 30, 1000}

GovClocks == {StartMs, StartMs + 500}

GovHeaders ==
    LET Opt(name, values) == {<<>>} \cup {[h \in {name} |-> v] : v \in values}
        Join(f, g) == [h \in DOMAIN f \cup DOMAIN g |-> IF h \in DOMAIN f THEN f[h] ELSE g[h]]
    IN  {Join(Join(a, b), Join(c, d)) :
            a \in Opt("X-RateLimit-Remaining", GovRemaining),
            b \in Opt("X-RateLimit-Limit", GovLimits),
            c \in Opt("X-RateLimit-Reset", GovResets),
            d \in Opt("content-length", {120})}

InitGov ==
    /\ op = "check_rate_limit" /\ pc = "call"
    /\ \E h \in GovHeaders, code \in {200, 401} :
          r = [status_code |-> code, headers |-> h, body |-> ""]
    /\ now_ms \in GovClocks
    /\ url = <<>> /\ env = <<>> /\ ref = NoRef /\ headers = <<>>
    /\ commits = <<>> /\ artifacts = <<>> /\ runs = <<>> /\ download_url = None
    /\ attempts = 0 /\ reqs = <<>> /\ observed = 0 /\ slept_ms = 0
    /\ extracted = "nothing" /\ outcome = "running" /\ result = None

call_check_rate_limit ==
    /\ op = "check_rate_limit" /\ pc = "call"
    /\ LET res == check_rate_limit(r.headers, now_ms)
       IN  /\ slept_ms' = res.slept_ms
           /\ now_ms' = now_ms + res.slept_ms
           /\ outcome' = CASE res.outcome = "TypeError" -> "TypeError"
                           [] res.outcome = "exit" -> "exit_rate_limit"
                           [] res.outcome = "return" -> "returned"
    /\ observed' = observed + 1
    /\ pc' = "done"
    /\ UNCHANGED <<op, url, env, ref, headers, r, commits, artifacts, runs, download_url,
                   attempts, reqs, extracted, result>>

SpecGov == InitGov /\ [][call_check_rate_limit]_vars

\* get_most_recent_action_url(commits, artifacts), get_most_recent_action_page(commits, runs)
CommitLists == {[i \in DOMAIN s |-> Commit(s[i])] : s \in SeqsUpTo(Shas, MaxCommits)}

ArtifactLists ==
    SeqsUpTo({Artifact("GDS", sha, u) : sha \in Shas, u \in DownloadUrls}, MaxEntries)

RunLists ==
    SeqsUpTo({Run(name, sha, u) : name \in {"gds", "test"}, sha \in Shas, u \in DownloadUrls},
             MaxEntries)

InitMatch ==
    /\ op \in {"get_most_recent_action_url", "get_most_recent_action_page"}
    /\ pc = "call"
    /\ commits \in CommitLists
    /\ IF op = "get_most_recent_action_url"
       THEN artifacts \in ArtifactLists /\ runs = <<>>
       ELSE runs \in RunLists /\ artifacts = <<>>
    /\ url = <<>> /\ env = <<>> /\ now_ms = StartMs /\ ref = NoRef /\ headers = <<>>
    /\ r = NoResponse /\ download_url = None
    /\ attempts = 0 /\ reqs = <<>> /\ observed = 0 /\ slept_ms = 0
    /\ extracted = "nothing" /\ outcome = "running" /\ result = None

call_get_most_recent_action_url ==
    /\ op = "get_most_recent_action_url" /\ pc = "call"
    /\ result' = get_most_recent_action_url(commits, artifacts)
    /\ outcome' = "returned"
    /\ pc' = "done"
    /\ UNCHANGED <<op, url, env, now_ms, ref, headers, r, commits, artifacts, runs,
                   download_url, attempts, reqs, observed, slept_ms, extracted>>

call_get_most_recent_action_page ==
    /\ op = "get_most_recent_action_page" /\ pc = "call"
    /\ result' = get_most_recent_action_page(commits, runs)
    /\ outcome' = "returned"
    /\ pc' = "done"
    /\ UNCHANGED <<op, url, env, now_ms, ref, headers, r, commits, artifacts, runs,
                   download_url, attempts, reqs, observed, slept_ms, extracted>>

NextMatch == call_get_most_recent_action_url \/ call_get_most_recent_action_page

SpecMatch == InitMatch /\ [][NextMatch]_vars


(***************************************************************************)
(* Properties.                                                             *)
(***************************************************************************)
NumRequests(endpoint) == Cardinality({i \in DOMAIN reqs : reqs[i].endpoint = endpoint})

LastEndpoint == IF reqs = <<>> THEN "none" ELSE reqs[Len(reqs)].endpoint

Installing == op = "install_artifacts"

\* the path has exactly two non-empty segments after the leading slash
WellFormedPath(path) ==
    \E i \in 2..Len(path) :
        /\ path[1] = "/" /\ path[i] = "/"
        /\ i > 2 /\ i < Len(path)
        /\ \A k \in 2..Len(path) : k # i => path[k] # "/"

WellFormedUrl == WellFormedPath(urlparse_path(url))

\* C1: install_artifacts attempts the download up to 3 times: two corrupt archives do
\* not exhaust the loop, so the process gives up only after 3 download requests (and a
\* valid third archive would be extracted).  Stated for well-formed repository URLs.
C1_GivesUpOnlyAfterThreeDownloads ==
    (Installing /\ WellFormedUrl /\ outcome = "exit_gave_up") => NumRequests("download") = 3

\* the lines at which a response's body is read
BodyUseSites == {"install_178", "install_184", "install_210", "latest_238", "latest_244",
                 "fetch_120"}

\* C2: in every top-level operation check_rate_limit has been invoked on every response
\* by the time its body is used (commits, artifacts list, runs list, download, contents).
\* Stated for well-formed repository URLs.
C2_GovernorSeesEveryResponse ==
    (WellFormedUrl /\ pc \in BodyUseSites) => observed = Len(reqs)

ReportsNoQuota(resp) ==
    /\ "X-RateLimit-Remaining" \in DOMAIN resp.headers
    /\ resp.headers["X-RateLimit-Remaining"] = 0

\* C3: once a response reports X-RateLimit-Remaining = 0, whichever request produced it,
\* no further HTTP request is issued.  Stated for well-formed repository URLs.
C3_NoRequestAfterQuotaExhausted ==
    [][(WellFormedUrl /\ ReportsNoQuota(r)) => reqs' = reqs]_vars

\* C4: in install_artifacts, get_latest_action_url and fetch_file_from_git a response
\* with status 401 terminates the process at that point, whatever quota headers it
\* carries: the next step is the exit, no later request is issued, nothing is extracted.
C4_UnauthorisedTerminates ==
    [][r.status_code = 401 =>
          /\ pc' = "done" /\ outcome' = "exit_unauthorised"
          /\ reqs' = reqs /\ extracted' = extracted]_vars

\* a 401 to the archive download that also reports an exhausted quota ended the process
C4_Witness ==
    /\ Installing /\ LastEndpoint = "download"
    /\ r.status_code = 401 /\ ReportsNoQuota(r)
    /\ outcome = "exit_unauthorised"

ArtifactShas == {artifacts[j].workflow_run.head_sha : j \in DOMAIN artifacts}

CommitsWithArtifact == {i \in DOMAIN commits : commits[i].sha \in ArtifactShas}

\* C5: get_most_recent_action_url returns a download URL of the first commit, in the
\* given order, whose sha is the head sha of some artifact, and returns nothing exactly
\* when no commit sha is an artifact's head sha.
C5_FirstCommitWithArtifact ==
    (op = "get_most_recent_action_url" /\ pc = "done") =>
        /\ (result = None) <=> (CommitsWithArtifact = {})
        /\ CommitsWithArtifact # {} =>
              \E j \in DOMAIN artifacts :
                  /\ artifacts[j].workflow_run.head_sha = commits[Min(CommitsWithArtifact)].sha
                  /\ result = artifacts[j].archive_download_url

\* newer commits without an artifact were skipped and an older one matched
C5_Witness ==
    /\ op = "get_most_recent_action_url" /\ pc = "done"
    /\ Len(commits) = 3
    /\ CommitsWithArtifact = {3}
    /\ result \in DownloadUrls

EnvValue(name) == IF name \in DOMAIN env THEN env[name] ELSE <<>>

Authorization == IF "authorization" \in DOMAIN headers THEN headers["authorization"] ELSE <<>>

\* C6: a non-empty GH_TOKEN gives 'Bearer ' + GH_TOKEN; else a non-empty GITHUB_TOKEN
\* gives 'Bearer ' + GITHUB_TOKEN; the Basic form is produced only when both tokens are
\* empty and both the username (GH_USERNAME, else GITHUB_ACTOR) and GH_PASSWORD are not.
C6_CredentialPrecedence ==
    (op = "headers_try_to_add_authorization_from_environment" /\ pc = "done") =>
        /\ EnvValue("GH_TOKEN") # <<>> => Authorization = Bearer \o EnvValue("GH_TOKEN")
        /\ (EnvValue("GH_TOKEN") = <<>> /\ EnvValue("GITHUB_TOKEN") # <<>>) =>
              Authorization = Bearer \o EnvValue("GITHUB_TOKEN")
        /\ StartsWith(Authorization, Basic) =>
              /\ EnvValue("GH_TOKEN") = <<>> /\ EnvValue("GITHUB_TOKEN") = <<>>
              /\ EnvValue("GH_USERNAME") # <<>> \/ EnvValue("GITHUB_ACTOR") # <<>>
              /\ EnvValue("GH_PASSWORD") # <<>>

\* a token, a username and a password are all set and the header is the Bearer form
C6_Witness ==
    /\ op = "headers_try_to_add_authorization_from_environment" /\ pc = "done"
    /\ EnvValue("GH_TOKEN") # <<>>
    /\ EnvValue("GH_USERNAME") # <<>> /\ EnvValue("GH_PASSWORD") # <<>>
    /\ StartsWith(Authorization, Bearer)

\* C7: a URL whose path does not yield exactly two non-empty segments makes every
\* top-level operation fail in split_git_url before any HTTP request is issued.
C7_MalformedUrlNoRequest ==
    (op \in Ops /\ ~WellFormedUrl) => reqs = <<>>

\* C8: install_artifacts returns normally only if an unpack succeeded; when every
\* download attempt yielded a corrupt archive the loop ends with the attempts exhausted
\* and the process terminates with 'gave up'.
C8_CorruptArchivesGiveUp ==
    Installing =>
        /\ outcome = "returned" => (extracted = "full" /\ r.body = "zip")
        /\ (pc = "install_217" /\ r.body # "zip") => attempts = max_attempts
        /\ outcome = "exit_gave_up" => (extracted # "full" /\ r.body \in {"badzip", "badcrc"})

\* every download attempt was corrupt and the process gave up
C8_Witness ==
    /\ Installing /\ outcome = "exit_gave_up"
    /\ NumRequests("download") >= 2
    /\ r.body = "badzip"

\* the artifacts-list response has no artifacts collection, or none named GDS
LacksGDS(resp) ==
    \/ "artifacts" \notin DOMAIN resp.body
    \/ \A j \in DOMAIN resp.body["artifacts"] : resp.body["artifacts"][j].name # "GDS"

\* C9: in install_artifacts, if the artifacts-list response carries no artifacts
\* collection or no artifact named GDS, the process terminates before the matcher runs:
\* no download request is issued and nothing is extracted.
C9_NoGdsArtifactTerminates ==
    (Installing /\ LastEndpoint = "artifacts" /\ r.status_code = 200 /\ LacksGDS(r)
       /\ pc \notin {"install_183", "install_184"}) =>
        /\ pc = "done" /\ outcome \in {"exit_no_artifact", "exit_no_artifacts"}
        /\ download_url = None
        /\ NumRequests("download") = 0
        /\ extracted = "nothing"

\* artifacts were listed, none of them named GDS, and the process ended there
C9_Witness ==
    /\ Installing /\ LastEndpoint = "artifacts" /\ r.status_code = 200
    /\ "artifacts" \in DOMAIN r.body /\ Len(r.body["artifacts"]) > 0
    /\ outcome = "exit_no_artifacts"

\* the governor's inputs as the claim names them (whole seconds to the reset)
Remaining(h) == IF "X-RateLimit-Remaining" \in DOMAIN h THEN h["X-RateLimit-Remaining"] ELSE -1

SecondsToReset(h, clock_ms) ==
    LET reset == IF "X-RateLimit-Reset" \in DOMAIN h THEN h["X-RateLimit-Reset"]
                 ELSE sys_maxsize
    IN  IF reset * 1000 - clock_ms > 0 THEN (reset * 1000 - clock_ms) \div 1000 ELSE 0

MustBlock(h, clock_ms) ==
    /\ 0 < Remaining(h) /\ Remaining(h) < 100
    /\ SecondsToReset(h, clock_ms) > 0
    /\ SecondsToReset(h, clock_ms) < 9 * Remaining(h)

\* C10: check_rate_limit blocks exactly when 0 < remaining < 100, secondsToReset > 0 and
\* delay = secondsToReset / remaining + 1 lies in (0, 10), and then for that delay; it
\* never blocks for 10 seconds or more.
C10_BlocksExactlyWhenThrottled ==
    (op = "check_rate_limit" /\ pc = "done") =>
        LET h == r.headers
            clock_ms == now_ms - slept_ms
        IN  /\ slept_ms < 10000
            /\ (slept_ms > 0) <=> MustBlock(h, clock_ms)
            /\ MustBlock(h, clock_ms) =>
                  slept_ms = 1000 + (1000 * SecondsToReset(h, clock_ms)) \div Remaining(h)

\* the repo segment with a trailing '.git' removed and nothing else changed
StripTrailingDotGit(s) ==
    IF Len(s) >= Len(DotGit) /\ SubSeq(s, Len(s) - Len(DotGit) + 1, Len(s)) = DotGit
    THEN SubSeq(s, 1, Len(s) - Len(DotGit))
    ELSE s

\* C11: for a URL whose path is /owner/repo or /owner/repo.git, split_git_url returns
\* (owner, name) with name the repo segment with only a trailing '.git' removed, so the
\* URL with and the URL without the suffix give the same pair.
C11_OnlyTrailingDotGitStripped ==
    (op = "split_git_url" /\ pc = "done" /\ WellFormedUrl) =>
        LET parts == str_split(urlparse_path(url), "/")
        IN  /\ outcome = "returned"
            /\ ref.user_name = parts[2]
            /\ ref.repo = StripTrailingDotGit(parts[3])

GdsRuns == SelectSeq(runs, LAMBDA run : run.name = "gds")

CommitsWithGdsRun ==
    {i \in DOMAIN commits : \E j \in DOMAIN GdsRuns : GdsRuns[j].head_sha = commits[i].sha}

\* C12: get_latest_action_url returns the page URL of a run named "gds" whose head sha
\* is the first commit, in history order, that has such a run; runs with another name
\* do not influence the result; it returns nothing when no commit has a "gds" run; it
\* never issues a download request and extracts nothing.
C12_LatestRunPage ==
    (op = "get_latest_action_url" /\ outcome = "returned") =>
        /\ (result = None) <=> (CommitsWithGdsRun = {})
        /\ CommitsWithGdsRun # {} =>
              \E j \in DOMAIN GdsRuns :
                  /\ GdsRuns[j].head_sha = commits[Min(CommitsWithGdsRun)].sha
                  /\ result = GdsRuns[j].html_url
        /\ NumRequests("download") = 0
        /\ extracted = "nothing"

\* the newest commit has only a run of another name; the older commit's gds run is returned
C12_Witness ==
    /\ op = "get_latest_action_url" /\ outcome = "returned"
    /\ Len(commits) = 3
    /\ \E j \in DOMAIN runs : runs[j].head_sha = commits[1].sha /\ runs[j].name # "gds"
    /\ CommitsWithGdsRun = {3}
    /\ result = "urlA"

NoToken == EnvValue("GH_TOKEN") = <<>> /\ EnvValue("GITHUB_TOKEN") = <<>>

NoUsername == EnvValue("GH_USERNAME") = <<>> /\ EnvValue("GITHUB_ACTOR") = <<>>

\* C13: when neither token variable is non-empty and the username or GH_PASSWORD is
\* empty, the resolver returns False without raising or terminating and leaves the
\* request headers without an authorization entry.
C13_NoCredentialReturnsFalse ==
    (op = "headers_try_to_add_authorization_from_environment" /\ pc = "done"
       /\ NoToken /\ (NoUsername \/ EnvValue("GH_PASSWORD") = <<>>)) =>
        /\ outcome = "returned"
        /\ result = "False"
        /\ "authorization" \notin DOMAIN headers
        /\ headers = AcceptHeaders

\* a username is set but no password and no token: the resolver returned False
C13_Witness ==
    /\ op = "headers_try_to_add_authorization_from_environment" /\ pc = "done"
    /\ NoToken /\ ~NoUsername /\ EnvValue("GH_PASSWORD") = <<>>
    /\ outcome = "returned" /\ result = "False"

\* C14: check_status runs before check_rate_limit on every response both are applied to:
\* a 401 response ends the process as 'unauthorised' without the governor being called,
\* without a throttle sleep and without the quota-exhausted exit, whatever its
\* X-RateLimit-Remaining header says.
C14_StatusBeforeGovernor ==
    [][r.status_code = 401 =>
          /\ outcome' = "exit_unauthorised"
          /\ observed' = observed
          /\ now_ms' = now_ms /\ slept_ms' = slept_ms]_vars

\* a 401 to the commits request with remaining = 50 ended the process with no sleep
C14_Witness ==
    /\ LastEndpoint = "commits"
    /\ r.status_code = 401 /\ Remaining(r.headers) = 50
    /\ outcome = "exit_unauthorised"
    /\ observed = 0 /\ now_ms = StartMs

DownloadRequests == {i \in DOMAIN reqs : reqs[i].endpoint = "download"}

\* C15: in a run of install_artifacts the commits request and the artifacts-list
\* request are each issued at most once, however many download retries occur, and every
\* download attempt uses the download URL chosen by the one match.
C15_RetryRepeatsOnlyDownload ==
    Installing =>
        /\ NumRequests("commits") <= 1
        /\ NumRequests("artifacts") <= 1
        /\ \A i \in DownloadRequests :
              /\ reqs[i].url = download_url
              /\ download_url = get_most_recent_action_url(commits, artifacts)
              /\ i > 2

\* a corrupt archive was followed by a second download
C15_Witness ==
    /\ Installing
    /\ NumRequests("download") = 2 /\ attempts = 2
    /\ NumRequests("commits") = 1 /\ NumRequests("artifacts") = 1

\* C19: after the first successful unpack in the download loop no further download
\* request is issued and install_artifacts returns normally, without the 'gave up'
\* exit, on whichever permitted attempt the success occurs.
C19_SuccessEndsLoop ==
    [][(Installing /\ extracted = "full") =>
          /\ reqs' = reqs
          /\ pc' = "done" /\ outcome' = "returned"]_vars

\* the unpack succeeded on the last attempt the loop permits and install returned
C19_Witness ==
    /\ Installing /\ outcome = "returned" /\ extracted = "full"
    /\ attempts = max_attempts - 1
    /\ NumRequests("download") = attempts

NoRateLimitHeaders(h) ==
    DOMAIN h \cap {"X-RateLimit-Remaining", "X-RateLimit-Limit", "X-RateLimit-Reset"} = {}

\* C16: for a response that carries no rate-limit headers (remaining and limit are -1,
\* reset is sys.maxsize) check_rate_limit returns without sleeping and without
\* terminating the process, for every status code.
C16_NoHeadersNoThrottle ==
    (op = "check_rate_limit" /\ pc = "done" /\ NoRateLimitHeaders(r.headers)) =>
        /\ outcome = "returned"
        /\ slept_ms = 0

\* C18: for every response, with or without content-type and content-length headers,
\* check_rate_limit either returns (possibly after a sleep) or exits because
\* remaining = 0; reading the diagnostic fields never makes it fail otherwise.
C18_GovernorReturnsOrExits ==
    (op = "check_rate_limit" /\ pc = "done") =>
        /\ outcome \in {"returned", "exit_rate_limit"}
        /\ outcome = "exit_rate_limit" <=> Remaining(r.headers) = 0

\* the matching step has run on a non-empty GDS list none of whose head shas is a commit's
NoCommitHasArtifact ==
    /\ Installing /\ attempts >= 1
    /\ artifacts # <<>>
    /\ CommitsWithArtifact = {}

\* C17: in install_artifacts, when the filtered GDS list is non-empty but no commit sha
\* is an artifact's head sha, the matcher returns nothing and the process does not end
\* at the matching step: it enters the download loop and calls requests.get with the
\* undefined URL, and never reports a successful extraction.
C17_NoMatchReachesDownload ==
    NoCommitHasArtifact =>
        /\ download_url = None
        /\ \/ pc \in {"install_205", "install_208"} /\ outcome = "running"
           \/ pc = "done" /\ outcome = "MissingSchema"
        /\ NumRequests("download") = 0
        /\ extracted = "nothing"

\* the download of the undefined URL was attempted and raised
C17_Witness ==
    /\ NoCommitHasArtifact
    /\ outcome = "MissingSchema"

\* the entries given to the matcher as <<head sha, value>> pairs, in collection order
MatcherEntries ==
    IF op = "get_most_recent_action_url"
    THEN [j \in DOMAIN artifacts |->
             <<artifacts[j].workflow_run.head_sha, artifacts[j].archive_download_url>>]
    ELSE [j \in DOMAIN GdsRuns |-> <<GdsRuns[j].head_sha, GdsRuns[j].html_url>>]

CommitsWithEntry ==
    {i \in DOMAIN commits : \E j \in DOMAIN MatcherEntries : MatcherEntries[j][1] = commits[i].sha}

LastEntryWith(sha) ==
    CHOOSE j \in DOMAIN MatcherEntries :
        /\ MatcherEntries[j][1] = sha
        /\ \A k \in DOMAIN MatcherEntries : MatcherEntries[k][1] = sha => k <= j

\* C20: when several entries given to a matcher share a head sha, the mapping keeps the
\* value of the last of them in collection order, so the matcher returns the URL of the
\* last entry whose sha is that of the first matching commit.
C20_LastWriteWins ==
    (op \in {"get_most_recent_action_url", "get_most_recent_action_page"} /\ pc = "done"
       /\ CommitsWithEntry # {}) =>
        result = MatcherEntries[LastEntryWith(commits[Min(CommitsWithEntry)].sha)][2]

\* two artifacts share the first matching commit's sha and the second one's URL is returned
C20_Witness ==
    /\ op = "get_most_recent_action_url" /\ pc = "done"
    /\ Len(artifacts) = 2 /\ commits # <<>>
    /\ artifacts[1].workflow_run.head_sha = commits[1].sha
    /\ artifacts[2].workflow_run.head_sha = commits[1].sha
    /\ artifacts[1].archive_download_url # artifacts[2].archive_download_url
    /\ result = artifacts[2].archive_download_url

=============================================================================
